---- MODULE Spec2Model ----
(***************************************************************************)
(* ReplyPilot backend: the reply endpoints of every server variant of the  *)
(* repository, the language classifier and the text normalizer.            *)
(*                                                                         *)
(* Text is a sequence of one-character strings, so that the regular        *)
(* expressions of the source (word boundaries, case folding, whitespace    *)
(* runs) are computed character by character.  A JavaScript value is a     *)
(* record [t, s, n]: its type tag, its characters (strings) and its number.*)
(***************************************************************************)
EXTENDS Integers, Sequences, FiniteSets, TLC

VARIABLES
    variant,        \* which server file is the running process
    env,            \* the provider credentials of the process environment
    req,            \* the request being handled (NoReq between requests)
    usageTracker,   \* part_000:21, the per-process usage map
    served,         \* history: 200 responses sent per caller
    arrivals,       \* history: requests received so far
    inflight,       \* concurrent handling: the request of each caller (NoReq if none)
    accepted,       \* concurrent handling, history: the callers in order of arrival
    fn,             \* pure-function checks: the function applied ("none" before)
    text,           \* pure-function checks: the text argument
    hint,           \* pure-function checks: the language hint / target language
    out,            \* pure-function checks: the result of fn
    out2            \* pure-function checks: the result of fn applied to out

vars ==
    <<variant, env, req, usageTracker, served, arrivals, inflight, accepted,
      fn, text, hint, out, out2>>
concVars == <<inflight, accepted>>
reqVars == <<variant, env, req, usageTracker, served, arrivals, inflight, accepted>>
fnVars == <<fn, text, hint, out, out2>>

(***************************************************************************)
(* Bounds of the checks.                                                   *)
(***************************************************************************)
MaxLangChunks == 3
MaxTextChunks == 3
MaxRequests == 2
MaxKeyChunks == 4
MaxLiveRequests == 1

(***************************************************************************)
(* JavaScript values.                                                      *)
(***************************************************************************)
Undef == [t |-> "undefined", s |-> <<>>, n |-> 0]
Null == [t |-> "null", s |-> <<>>, n |-> 0]
Obj == [t |-> "object", s |-> <<>>, n |-> 0]
Str(chars) == [t |-> "string", s |-> chars, n |-> 0]
Num(k) == [t |-> "number", s |-> <<>>, n |-> k]
\* the outcome of a call that threw a TypeError instead of returning
TypeError == [t |-> "TypeError", s |-> <<>>, n |-> 0]

IsStr(v) == v.t = "string"
\* ToBoolean: what `!v`, `v || d` and `v ? a : b` test
Truthy(v) ==
    \/ v.t = "string" /\ v.s # <<>>
    \/ v.t = "number" /\ v.n # 0
    \/ v.t = "object"
\* v ?? d
Nullish(v) == v.t \in {"undefined", "null"}

DigitChars == <<"0","1","2","3","4","5","6","7","8","9">>
RECURSIVE NatChars(_)
NatChars(k) ==
    IF k < 10 THEN <<DigitChars[k + 1]>>
    ELSE NatChars(k \div 10) \o <<DigitChars[(k % 10) + 1]>>

\* String(v) and v.toString() for the values a JSON body can carry
ToStr(v) ==
    CASE v.t = "string" -> v.s
      [] v.t = "number" -> IF v.n < 0 THEN <<"-">> \o NatChars(0 - v.n) ELSE NatChars(v.n)
      [] v.t = "object" -> <<"[","o","b","j","e","c","t"," ","O","b","j","e","c","t","]">>
      [] v.t = "null" -> <<"n","u","l","l">>
      [] OTHER -> <<"u","n","d","e","f","i","n","e","d">>

(***************************************************************************)
(* Characters and the regular-expression primitives the source uses.       *)
(***************************************************************************)
LowerLetters ==
    <<"a","b","c","d","e","f","g","h","i","j","k","l","m","n","o","p","q","r","s","t","u","v","w","x","y","z">>
UpperLetters ==
    <<"A","B","C","D","E","F","G","H","I","J","K","L","M","N","O","P","Q","R","S","T","U","V","W","X","Y","Z">>
Range(f) == {f[i] : i \in DOMAIN f}

\* \w
WordChars == Range(LowerLetters) \cup Range(UpperLetters) \cup Range(DigitChars) \cup {"_"}
IsWordCh(c) == c \in WordChars
\* \s
IsSpaceCh(c) == c \in {" ", "\t", "\n"}

LowerOf ==
    [c \in Range(UpperLetters) |->
        LowerLetters[CHOOSE i \in DOMAIN UpperLetters : UpperLetters[i] = c]]
ToLowerCh(c) == IF c \in DOMAIN LowerOf THEN LowerOf[c] ELSE c
\* String.prototype.toLowerCase
ToLower(s) == [i \in 1..Len(s) |-> ToLowerCh(s[i])]

\* the element of a one-element set; {F(t) : t \in {e}} is the result of the
\* statement  t = F(t)  on the value e
The(S) == CHOOSE y \in S : TRUE

\* String.prototype.trim
Trim(s) ==
    LET keep == {i \in 1..Len(s) : ~IsSpaceCh(s[i])}
    IN IF keep = {} THEN <<>>
       ELSE SubSeq(s, CHOOSE i \in keep : \A j \in keep : i <= j,
                      CHOOSE i \in keep : \A j \in keep : j <= i)

\* \b at the position before s[i] (i in 1..Len(s)+1)
WordBoundary(s, i) ==
    LET before == i > 1 /\ i - 1 <= Len(s) /\ IsWordCh(s[i - 1])
        after == i >= 1 /\ i <= Len(s) /\ IsWordCh(s[i])
    IN before # after

\* the literal pat matches s at position i; ci is the regex flag i
LitAt(s, i, pat, ci) ==
    /\ i >= 1
    /\ i + Len(pat) - 1 <= Len(s)
    /\ \A k \in 1..Len(pat) :
          IF ci THEN ToLowerCh(s[i + k - 1]) = ToLowerCh(pat[k])
          ELSE s[i + k - 1] = pat[k]

\* the length of the run of whitespace starting at position i of s
RECURSIVE WsRun(_, _)
WsRun(s, i) == IF i >= 1 /\ i <= Len(s) /\ IsSpaceCh(s[i]) THEN 1 + WsRun(s, i + 1) ELSE 0

\* (pat\s+)* from position i: <<number of repetitions, characters consumed>>
RECURSIVE UnitsRun(_, _, _, _)
UnitsRun(s, i, pat, ci) ==
    LET w == WsRun(s, i + Len(pat))
    IN IF LitAt(s, i, pat, ci) /\ w >= 1
       THEN LET more == UnitsRun(s, i + Len(pat) + w, pat, ci)
            IN <<1 + more[1], Len(pat) + w + more[2]>>
       ELSE <<0, 0>>

\* The regexes of the source, as records:
\*   kind "lit":    \b? pat \b? \.?     (wb: \b on both sides, dot: a trailing \.?)
\*   kind "pair":   \b pat \s+ pat \b
\*   kind "units":  \b (pat \s+){2,}
\* ci is the flag i.
Rx(pat, ci, wb, dot) == [kind |-> "lit", pat |-> pat, ci |-> ci, wb |-> wb, dot |-> dot]
RxPair(pat) == [kind |-> "pair", pat |-> pat, ci |-> TRUE, wb |-> TRUE, dot |-> FALSE]
RxUnits(pat) == [kind |-> "units", pat |-> pat, ci |-> TRUE, wb |-> TRUE, dot |-> FALSE]

\* length of the (greedy) match of rx starting at position i of s, 0 when there is none
MatchLen(s, i, rx) ==
    LET n == Len(rx.pat)
    IN CASE rx.kind = "lit" ->
              IF ~LitAt(s, i, rx.pat, rx.ci) THEN 0
              ELSE IF rx.wb /\ ~(WordBoundary(s, i) /\ WordBoundary(s, i + n)) THEN 0
              ELSE IF rx.dot /\ i + n <= Len(s) /\ s[i + n] = "." THEN n + 1
              ELSE n
         [] rx.kind = "pair" ->
              LET w == WsRun(s, i + n)
              IN IF /\ WordBoundary(s, i)
                    /\ LitAt(s, i, rx.pat, rx.ci)
                    /\ w >= 1
                    /\ LitAt(s, i + n + w, rx.pat, rx.ci)
                    /\ WordBoundary(s, i + n + w + n)
                 THEN n + w + n
                 ELSE 0
         [] OTHER ->
              LET u == UnitsRun(s, i, rx.pat, rx.ci)
              IN IF WordBoundary(s, i) /\ u[1] >= 2 THEN u[2] ELSE 0

\* RegExp.prototype.test
RxTest(s, rx) == \E i \in 1..Len(s) : MatchLen(s, i, rx) > 0

\* the least element of a non-empty set of integers
Least(S) == CHOOSE i \in S : \A j \in S : i <= j

\* String.prototype.replace with a global regex: the leftmost match from position
\* i on is replaced and the scan resumes after it, never rescanning a replacement
RECURSIVE ReplaceFrom(_, _, _, _)
ReplaceFrom(s, i, rx, rep) ==
    LET len == [j \in i..Len(s) |-> MatchLen(s, j, rx)]
        hits == {j \in i..Len(s) : len[j] > 0}
    IN IF hits = {} THEN SubSeq(s, i, Len(s))
       ELSE LET j == Least(hits)
            IN SubSeq(s, i, j - 1) \o rep \o ReplaceFrom(s, j + len[j], rx, rep)
ReplaceAll(s, rx, rep) == ReplaceFrom(s, 1, rx, rep)

\* s contains pat, compared case-insensitively
ContainsCI(s, pat) == \E i \in 1..Len(s) : LitAt(s, i, pat, TRUE)

\* the concatenation of a sequence of texts
RECURSIVE Concat(_)
Concat(parts) == IF parts = <<>> THEN <<>> ELSE Head(parts) \o Concat(Tail(parts))
\* every sequence of at most k elements of the set S
SeqsUpTo(S, k) == UNION {[1..m -> S] : m \in 0..k}

(***************************************************************************)
(* Language Classifier: part_000:26-37 and part_001:45-56.                 *)
(***************************************************************************)
S_auto == <<"a","u","t","o">>
S_english == <<"e","n","g","l","i","s","h">>
S_taglish == <<"t","a","g","l","i","s","h">>

\* the marker list of detectLanguage
markers ==
    { <<"s","a","l","a","m","a","t">>, <<"p","o">>, <<"o","p","o">>, <<"m","a","b","i","l","i","s">>, <<"s","a","n","a">>,
      <<"a","n","g">>, <<"n","g">>, <<"k","a","s","i">>, <<"m","e","r","o","n">>, <<"w","a","l","a">> }

\* hits >= 2 ? "taglish" : "english"
LabelOfHits(hits) == IF hits >= 2 THEN "taglish" ELSE "english"

\* a plausible slip: the marker regex built without its \b anchors
detectLanguage000_NoBoundary(txt) ==
    LET t == ToLower(txt)
    IN LabelOfHits(Cardinality({w \in markers : RxTest(t, Rx(w, FALSE, FALSE, FALSE))}))

\* part_000: text.toLowerCase(), new RegExp(`\\b${w}\\b`)
detectLanguage000(txt) ==
    LET t == ToLower(txt)
    IN LabelOfHits(Cardinality({w \in markers : RxTest(t, Rx(w, FALSE, TRUE, FALSE))}))

\* part_001: String(text || "").toLowerCase(), new RegExp(`\\b${w}\\b`, "i")
detectLanguage001(txt) ==
    LET t == ToLower(ToStr(IF Truthy(Str(txt)) THEN Str(txt) ELSE Str(<<>>)))
    IN LabelOfHits(Cardinality({w \in markers : RxTest(t, Rx(w, TRUE, TRUE, FALSE))}))

\* the label a lower-cased, trimmed hint names; "" when it names none
LabelOf(l) ==
    IF l = S_english THEN "english" ELSE IF l = S_taglish THEN "taglish" ELSE ""

\* The result of normalizeLanguage: val is the label returned, or "TypeError"
\* when the call throws; detect tells whether detectLanguage(text) was called.
NLResult(val, detect) == [val |-> val, detect |-> detect]

\* a plausible slip: the hint is ignored and the text always decides
normalizeLanguage001_IgnoreHint(language, txt) == NLResult(detectLanguage001(txt), TRUE)

\* part_000:33-37
\*   const l = (language || "auto").toLowerCase();
\*   if (l === "english" || l === "taglish") return l;
\*   return detectLanguage(text);
normalizeLanguage000(language, txt) ==
    LET v == IF Truthy(language) THEN language ELSE Str(S_auto)
    IN IF ~IsStr(v) THEN NLResult("TypeError", FALSE)   \* a number or object has no toLowerCase
       ELSE LET l == ToLower(v.s)
            IN IF LabelOf(l) # "" THEN NLResult(LabelOf(l), FALSE)
               ELSE NLResult(detectLanguage000(txt), TRUE)

\* part_001:52-56
\*   const l = String(language || "auto").toLowerCase().trim();
normalizeLanguage001(language, txt) ==
    LET v == IF Truthy(language) THEN language ELSE Str(S_auto)
        l == Trim(ToLower(ToStr(v)))
    IN IF LabelOf(l) # "" THEN NLResult(LabelOf(l), FALSE)
       ELSE NLResult(detectLanguage001(txt), TRUE)

(***************************************************************************)
(* Text Normalizer: polish (part_000:65-73, part_001:84-92) and the        *)
(* helpers of backend/server.js:72-161.  Each takes a JavaScript value and *)
(* yields a JavaScript value, or TypeError when the call throws.           *)
(***************************************************************************)
S_po == <<"p","o">>
P_recieve == <<"r","e","c","i","e","v","e">>
R_receive == <<"r","e","c","e","i","v","e">>
P_recieved == <<"r","e","c","i","e","v","e","d">>
R_received == <<"r","e","c","e","i","v","e","d">>
P_appreciate == <<"w","e"," ","a","p","p","r","e","c","i","a","t","e"," ","y","o","u","r"," ","b","u","s","i","n","e","s","s">>
R_salamatOrder == <<"S","a","l","a","m","a","t"," ","p","o"," ","s","a"," ","o","r","d","e","r"," ","n","i","n","y","o","!">>
P_hopeServe == <<"h","o","p","e"," ","t","o"," ","s","e","r","v","e"," ","y","o","u"," ","a","g","a","i","n"," ","s","o","o","n">>
R_sanaBalik == <<"S","a","n","a"," ","p","o"," ","m","a","k","a","b","a","l","i","k"," ","k","a","y","o"," ","u","l","i","t","!">>
S_salamatPo == <<" ","S","a","l","a","m","a","t"," ","p","o","!">>

\* const clean = (v) => (v ?? "").toString().trim();
\* a chain of .replace(regex, replacement) calls, applied in the order of the
\* table of <<regex, replacement>> from its k-th entry on
RECURSIVE ApplyReplacements(_, _, _)
ApplyReplacements(s, table, k) ==
    IF k > Len(table) THEN s
    ELSE ApplyReplacements(ReplaceAll(s, table[k][1], table[k][2]), table, k + 1)

clean(v) == Trim(ToStr(IF Nullish(v) THEN Str(<<>>) ELSE v))

\* the replacements of polish, in their order
polishReplacements ==
    << <<Rx(P_recieve, TRUE, TRUE, FALSE), R_receive>>,
       <<Rx(P_recieved, TRUE, TRUE, FALSE), R_received>>,
       <<Rx(P_appreciate, TRUE, FALSE, TRUE), R_salamatOrder>>,
       <<Rx(P_hopeServe, TRUE, FALSE, TRUE), R_sanaBalik>> >>

\* the chain of replacements of polish and its taglish suffix, on the characters
AddSalamatPo(s, lang) ==
    IF lang = "taglish" /\ ~RxTest(s, Rx(S_po, TRUE, TRUE, FALSE)) THEN s \o S_salamatPo ELSE s
polishChars(s, lang) ==
    The({Trim(t2) : t2 \in {AddSalamatPo(t1, lang) :
                                t1 \in {ApplyReplacements(s, polishReplacements, 1)}}})

\* part_000:65-73: text.replace(...) throws unless text is a string
polish000(v, lang) == IF ~IsStr(v) THEN TypeError ELSE Str(polishChars(v.s, lang))

\* part_001:84-92: clean(text).replace(...)
polish001(v, lang) == Str(polishChars(clean(v), lang))

\* if (!text || typeof text !== "string") return text;
PassedThrough(v) == ~Truthy(v) \/ ~IsStr(v)

\* backend/server.js:110-116
dedupePo(v) ==
    IF PassedThrough(v) THEN v
    ELSE Str(ApplyReplacements(v.s, << <<RxPair(S_po), S_po>>, <<RxUnits(S_po), <<"p","o"," ">>>> >>, 1))

\* text.split(/(?<=[.!?])\s+/): a separator is a run of whitespace that starts
\* right after '.', '!' or '?'
RECURSIVE SplitFrom(_, _)
SplitFrom(s, i) ==
    LET seps == {j \in i..Len(s) : j > 1 /\ s[j - 1] \in {".", "!", "?"} /\ IsSpaceCh(s[j])}
    IN IF seps = {} THEN <<SubSeq(s, i, Len(s))>>
       ELSE LET j == Least(seps)
            IN <<SubSeq(s, i, j - 1)>> \o SplitFrom(s, j + WsRun(s, j))
SplitSentences(s) == SplitFrom(s, 1)

\* parts.join(" ")
RECURSIVE JoinSpace(_)
JoinSpace(parts) ==
    IF parts = <<>> THEN <<>>
    ELSE IF Len(parts) = 1 THEN parts[1]
    ELSE parts[1] \o <<" ">> \o JoinSpace(Tail(parts))

\* backend/server.js:119-123
trimToMaxSentences(v, maxSentences) ==
    IF PassedThrough(v) THEN v
    ELSE LET parts == SplitSentences(v.s)
             kept == SubSeq(parts, 1, IF Len(parts) < maxSentences THEN Len(parts) ELSE maxSentences)
         IN Str(Trim(JoinSpace(kept)))

\* backend/server.js:72-94 (and server.js:30-52)
normalizeStrictTagalogPoliteness(v) ==
    IF PassedThrough(v) THEN v
    ELSE Str(ApplyReplacements(v.s,
            << <<Rx(<<"m","a","l","u","g","o","d"," ","n","a","m","i","n","g"," ","t","i","n","a","t","a","n","g","g","a","p"," ","k","a","y","o">>, TRUE, FALSE, FALSE),
                 <<"m","a","l","u","g","o","d"," ","p","o"," ","n","a","m","i","n","g"," ","k","a","y","o","n","g"," ","t","i","n","a","t","a","n","g","g","a","p">>>>,
               <<Rx(<<"n","a","m","i","n","g"," ","t","i","n","a","t","a","n","g","g","a","p"," ","k","a","y","o">>, TRUE, FALSE, FALSE),
                 <<"p","o"," ","n","a","m","i","n","g"," ","k","a","y","o","n","g"," ","t","i","n","a","t","a","n","g","g","a","p">>>> >>, 1))

\* .replace(/^Salamat\s+/i, "Salamat po ")
OpenWithSalamatPo(s) ==
    LET w == WsRun(s, 8)
    IN IF LitAt(s, 1, <<"S","a","l","a","m","a","t">>, TRUE) /\ w >= 1
       THEN <<"S","a","l","a","m","a","t"," ","p","o"," ">> \o SubSeq(s, 8 + w, Len(s))
       ELSE s
\* .replace(/^Salamat po sa feedback n'yo!/i, "Salamat po sa feedback n'yo!")
OpenWithFeedback(s) ==
    LET p == <<"S","a","l","a","m","a","t"," ","p","o"," ","s","a"," ","f","e","e","d","b","a","c","k"," ","n","'","y","o","!">>
    IN IF LitAt(s, 1, p, TRUE) THEN p \o SubSeq(s, Len(p) + 1, Len(s)) ELSE s

\* backend/server.js:96-107 (and server.js:53-64)
normalizeTaglish(v) ==
    IF PassedThrough(v) THEN v
    ELSE LET t3 == ApplyReplacements(v.s,
                    << <<Rx(<<"p","a","g","k","u","h","a"," ","n","g"," ","o","r","a","s"," ","n","a"," ","m","a","g","b","i","g","a","y"," ","n","g"," ","p","u","n","a">>, TRUE, FALSE, FALSE),
                         <<"f","e","e","d","b","a","c","k"," ","n","'","y","o">>>>,
                       <<Rx(<<"p","a","g","b","i","g","a","y"," ","n","g"," ","i","n","y","o","n","g"," ","p","a","g","b","a","l","i","k">>, TRUE, FALSE, FALSE),
                         <<"f","e","e","d","b","a","c","k"," ","n","'","y","o">>>>,
                       <<Rx(<<"p","a","g","b","i","g","a","y"," ","n","g"," ","i","n","y","o","n","g"," ","k","o","m","e","n","t","o">>, TRUE, FALSE, FALSE),
                         <<"c","o","m","m","e","n","t"," ","n","'","y","o">>>> >>, 1)
         IN Str(OpenWithFeedback(OpenWithSalamatPo(t3)))

\* t.replace(/\bLubos na gumagalang\b.*$/i, ""): the text is cut at the first
\* whole-word occurrence after which no line terminator follows
CutClosing(s) ==
    LET p == <<"L","u","b","o","s"," ","n","a"," ","g","u","m","a","g","a","l","a","n","g">>
        hit(i) == /\ MatchLen(s, i, Rx(p, TRUE, TRUE, FALSE)) > 0
                  /\ \A k \in (i + Len(p))..Len(s) : s[k] # "\n"
        hits == {i \in 1..Len(s) : hit(i)}
    IN IF hits = {} THEN s
       ELSE SubSeq(s, 1, Least(hits) - 1)

\* the replacement table of normalizeFilipinoSellerTone, in its order
sellerToneReplacements ==
    << <<Rx(<<"p","u","n","a">>, TRUE, TRUE, FALSE), <<"r","e","v","i","e","w">>>>,
       <<Rx(<<"k","o","m","e","n","t","o">>, TRUE, TRUE, FALSE), <<"r","e","v","i","e","w">>>>,
       <<Rx(<<"i","k","i","n","a","g","a","g","a","l","a","k">>, TRUE, TRUE, FALSE), <<"M","a","s","a","y","a"," ","p","o"," ","k","a","m","i">>>>,
       <<Rx(<<"n","a","t","u","t","u","w","a"," ","k","a","m","i">>, TRUE, TRUE, FALSE), <<"M","a","s","a","y","a"," ","p","o"," ","k","a","m","i">>>>,
       <<Rx(<<"n","a","t","u","t","u","w","a">>, TRUE, TRUE, FALSE), <<"M","a","s","a","y","a"," ","p","o">>>>,
       <<Rx(<<"a","m","i","n","g"," ","t","i","n","d","a","h","a","n">>, TRUE, TRUE, FALSE), <<"s","h","o","p"," ","n","a","m","i","n">>>>,
       <<Rx(<<"m","g","a"," ","p","r","o","d","u","k","t","o">>, TRUE, TRUE, FALSE), <<"p","r","o","d","u","c","t","s">>>>,
       <<Rx(<<"p","a","g","h","a","t","i","d">>, TRUE, TRUE, FALSE), <<"d","e","l","i","v","e","r","y">>>>,
       <<Rx(<<"p","a","g","h","a","h","a","t","i","d">>, TRUE, TRUE, FALSE), <<"d","e","l","i","v","e","r","y">>>>,
       <<Rx(<<"p","a","g","b","a","b","a","l","i","k"," ","n","g"," ","b","a","y","a","d">>, TRUE, TRUE, FALSE), <<"r","e","f","u","n","d">>>>,
       <<Rx(<<"k","a","p","a","l","i","t">>, TRUE, TRUE, FALSE), <<"r","e","p","l","a","c","e","m","e","n","t">>>>,
       <<Rx(<<"m","a","l","u","g","o","d"," ","p","o"," ","n","a","m","i","n","g"," ","k","a","y","o","n","g"," ","t","i","n","a","t","a","n","g","g","a","p">>, TRUE, TRUE, FALSE), <<"w","e","l","c","o","m","e"," ","p","o"," ","k","a","y","o">>>> >>

\* backend/server.js:150-155: the replacements, then dedupePo
ReplaceSellerWords(t) == dedupePo(Str(ApplyReplacements(t, sellerToneReplacements, 1))).s

\* backend/server.js:158: if (t && !/[.!?]$/.test(t)) t += "."
EndCleanly(t) == IF t # <<>> /\ t[Len(t)] \notin {".", "!", "?"} THEN t \o <<".">> ELSE t

\* backend/server.js:126-161
normalizeFilipinoSellerTone(v) ==
    IF PassedThrough(v) THEN v
    ELSE Str(The({EndCleanly(t4) : t4 \in {ReplaceSellerWords(t3) : t3 \in {Trim(t2) :
                    t2 \in {CutClosing(t1) : t1 \in {Trim(v.s)}}}}}))
(***************************************************************************)
(* The reply endpoints.  A request is a record; a handler runs from the    *)
(* arrival of the request to its first remote call or its response         *)
(* (Start...), and from the outcome of a remote call to the next remote    *)
(* call or the response (Resume...).                                       *)
(***************************************************************************)
Variants ==
    { "part_000",           \* Groq + Gemini router, unguarded clients
      "part_001",           \* Groq + Gemini router, guarded clients, EMPTY_REPLY
      "part_002",           \* /api/replypilot on Groq
      "part_003",           \* /api/replypilot on Groq, key check
      "part_004_openai",    \* /api/replypilot on OpenAI (part_004:1-82)
      "part_004_hybrid",    \* hardened hybrid router (part_004:84-297)
      "server",             \* server.js, v0.8 hybrid
      "backend_bootsafe",   \* backend/server.js:1-39, boot-safe route
      "backend_server" }    \* backend/server.js:41-532, v0.8 hybrid with guards

\* the credentials each variant reads from the environment
KeysOf(v) ==
    CASE v \in {"part_000", "part_001"} -> {"groq", "gemini"}
      [] v \in {"part_002", "part_003"} -> {"groq"}
      [] v = "part_004_openai" -> {"openai"}
      [] v \in {"part_004_hybrid", "server", "backend_server"} -> {"groq", "openai"}
      [] OTHER -> {}

Callers == {"c1", "c2"}

NoReq ==
    [ pc |-> "idle",            \* "idle", "await" (a remote call is pending), "done" (responded)
      caller |-> "",
      reviewText |-> Undef,     \* req.body.reviewText
      language |-> Undef,       \* req.body.language
      lang |-> Undef,           \* the handler's lang
      awaiting |-> "none",      \* the pending call: which step of the handler made it
      calls |-> <<>>,           \* history: the providers of the remote calls started
      results |-> <<>>,         \* history: the outcomes of the remote calls, in order
      first |-> Undef,          \* the reply of the first call, kept for a corrective call
      status |-> 0,             \* the HTTP status sent
      reply |-> Undef,          \* the fields of the JSON body sent
      engine |-> "",            \*   engine / providerUsed
      respLanguage |-> Undef,
      error |-> "",
      details |-> "",
      sent |-> 0 ]              \* history: responses sent for this request

NewReq(c, rt, lg) == [NoReq EXCEPT !.pc = "start", !.caller = c, !.reviewText = rt, !.language = lg]

\* res.status(code).json({ error, details })
Fail(r, code, err, det) ==
    [r EXCEPT !.pc = "done", !.awaiting = "none", !.status = code, !.error = err,
              !.details = det, !.sent = @ + 1]
\* res.json({ reply, engine, language })
Ok(r, rep, eng, lg) ==
    [r EXCEPT !.pc = "done", !.awaiting = "none", !.status = 200, !.reply = rep,
              !.engine = eng, !.respLanguage = lg, !.sent = @ + 1]
\* the handler starts a remote call to provider p at its step named step and suspends
Call(r, step, p) == [r EXCEPT !.pc = "await", !.awaiting = step, !.calls = Append(@, p)]

\* the provider a pending step calls
ProviderOf(step) ==
    CASE step \in {"groq", "groq-fallback", "groq-rewrite"} -> "groq"
      [] step = "gemini" -> "gemini"
      [] OTHER -> "openai"

\* The outcome of a remote call: it throws, or returns a content.
Thrown == [throws |-> TRUE, content |-> Undef]
Returned(c) == [throws |-> FALSE, content |-> c]
\* e.message of a failed call
UpstreamMessage(step) ==
    CASE ProviderOf(step) = "groq" -> "groq upstream error"
      [] ProviderOf(step) = "gemini" -> "gemini upstream error"
      [] OTHER -> "openai upstream error"

\* x || d
OrElse(x, d) == IF Truthy(x) THEN x ELSE d
\* content?.trim()
OptTrim(c) == IF Nullish(c) THEN Undef ELSE IF IsStr(c) THEN Str(Trim(c.s)) ELSE TypeError

\* ---------------------------------------------------------------- part_000
\* part_000:89-96 geminiReply then, on any throw, part_000:76-87 groqReply;
\* a null client throws a TypeError before any remote call
GroqCall000(r, step) ==
    IF env.groq THEN Call(r, step, "groq")
    ELSE Fail(r, 500, "Cannot read properties of null (reading 'chat')", "")

\* part_000:106-135
Start000(r) ==
    LET txt == clean(r.reviewText)
        nl == normalizeLanguage000(r.language, txt)
    IN IF txt = <<>> THEN Fail(r, 400, "reviewText required", "")
       ELSE IF nl.val = "TypeError"
            THEN Fail(r, 500, "(language || \"auto\").toLowerCase is not a function", "")
       ELSE LET r1 == [r EXCEPT !.lang = Str(IF nl.val = "taglish" THEN S_taglish ELSE S_english)]
            IN IF nl.val = "taglish"
               THEN IF env.gemini THEN Call(r1, "gemini", "gemini")
                    ELSE GroqCall000(r1, "groq-fallback")
               ELSE GroqCall000(r1, "groq")

\* part_000:124-145
Resume000(r, o) ==
    IF o.throws
    THEN IF r.awaiting = "gemini" THEN GroqCall000(r, "groq-fallback")
         ELSE Fail(r, 500, UpstreamMessage(r.awaiting), "")
    ELSE LET p == polish000(o.content, LabelOf(r.lang.s))
         IN IF p = TypeError
            THEN Fail(r, 500, "Cannot read properties of null (reading 'replace')", "")
            ELSE Ok(r, p, r.awaiting, r.lang)

\* ---------------------------------------------------------------- part_001
\* part_001:95-96 groqReply: if (!groq) throw new Error("GROQ_NOT_CONFIGURED")
GroqCall001(r, step) ==
    IF env.groq THEN Call(r, step, "groq")
    ELSE Fail(r, 500, "SERVER_ERROR", "GROQ_NOT_CONFIGURED")

\* part_001:120-150
Start001(r) ==
    LET txt == clean(r.reviewText)
        nl == normalizeLanguage001(r.language, txt)
    IN IF txt = <<>> THEN Fail(r, 400, "reviewText required", "")
       ELSE LET r1 == [r EXCEPT !.lang = Str(IF nl.val = "taglish" THEN S_taglish ELSE S_english)]
            IN IF nl.val = "taglish"
               THEN IF env.gemini THEN Call(r1, "gemini", "gemini")
                    ELSE GroqCall001(r1, "groq-fallback")   \* GEMINI_NOT_CONFIGURED is caught
               ELSE GroqCall001(r1, "groq")

\* a plausible slip: the engine is the provider of the last call, the fallback unmarked
Resume001_EngineOfLastCall(r, o) ==
    IF o.throws
    THEN IF r.awaiting = "gemini" THEN GroqCall001(r, "groq-fallback")
         ELSE Fail(r, 500, "SERVER_ERROR", UpstreamMessage(r.awaiting))
    ELSE LET rep == OrElse(o.content, Str(<<>>))
         IN IF ~Truthy(rep) THEN [Fail(r, 502, "EMPTY_REPLY", "") EXCEPT !.engine = r.awaiting]
            ELSE Ok(r, polish001(rep, LabelOf(r.lang.s)), ProviderOf(r.awaiting), r.lang)

\* a plausible slip: the EMPTY_REPLY branch does not return, and the handler goes
\* on to send the reply as well
Resume001_NoReturnAfter502(r, o) ==
    IF o.throws
    THEN IF r.awaiting = "gemini" THEN GroqCall001(r, "groq-fallback")
         ELSE Fail(r, 500, "SERVER_ERROR", UpstreamMessage(r.awaiting))
    ELSE LET rep == OrElse(o.content, Str(<<>>))
         IN IF ~Truthy(rep)
            THEN Ok([Fail(r, 502, "EMPTY_REPLY", "") EXCEPT !.engine = r.awaiting],
                    polish001(rep, LabelOf(r.lang.s)), r.awaiting, r.lang)
            ELSE Ok(r, polish001(rep, LabelOf(r.lang.s)), r.awaiting, r.lang)

\* a plausible slip: the error of the provider tried first is kept and reported
\* when the fallback fails too
Resume001_ReportsFirstError(r, o) ==
    IF o.throws
    THEN IF r.awaiting = "gemini" THEN GroqCall001(r, "groq-fallback")
         ELSE Fail(r, 500, "SERVER_ERROR",
                   UpstreamMessage(IF r.awaiting = "groq-fallback" THEN "gemini" ELSE r.awaiting))
    ELSE LET rep == OrElse(o.content, Str(<<>>))
         IN IF ~Truthy(rep) THEN [Fail(r, 502, "EMPTY_REPLY", "") EXCEPT !.engine = r.awaiting]
            ELSE Ok(r, polish001(rep, LabelOf(r.lang.s)), r.awaiting, r.lang)

\* part_001:139-157; both reply functions end in  ... || ""
Resume001(r, o) ==
    IF o.throws
    THEN IF r.awaiting = "gemini" THEN GroqCall001(r, "groq-fallback")
         ELSE Fail(r, 500, "SERVER_ERROR", UpstreamMessage(r.awaiting))
    ELSE LET rep == OrElse(o.content, Str(<<>>))
         IN IF ~Truthy(rep) THEN [Fail(r, 502, "EMPTY_REPLY", "") EXCEPT !.engine = r.awaiting]
            ELSE Ok(r, polish001(rep, LabelOf(r.lang.s)), r.awaiting, r.lang)

\* ---------------------------------------------------------------- part_002 / part_003
S_thankYouReview == <<"T","h","a","n","k"," ","y","o","u"," ","f","o","r"," ","y","o","u","r"," ","r","e","v","i","e","w","!">>

\* part_002:25-107
Start002(r) ==
    IF ~Truthy(r.reviewText) THEN Fail(r, 400, "Missing review text", "")
    ELSE Call(r, "groq", "groq")

\* part_003:101-140
Start003(r) ==
    IF ~Truthy(r.reviewText) THEN Fail(r, 400, "Missing review text", "")
    ELSE IF ~IsStr(r.reviewText)
         THEN Fail(r, 500, "Internal server error", "reviewText.trim is not a function")
    ELSE IF Trim(r.reviewText.s) = <<>> THEN Fail(r, 400, "Missing review text", "")
    ELSE IF ~env.groq THEN Fail(r, 500, "GROQ_API_KEY is not configured on the server.", "")
    ELSE Call(r, "groq", "groq")

\* part_002:109-121 and part_003:143-162
ResumeReplypilotGroq(r, o) ==
    IF o.throws THEN Fail(r, 500, "Internal server error", UpstreamMessage(r.awaiting))
    ELSE Ok(r, OrElse(OptTrim(o.content), Str(S_thankYouReview)), "", Undef)

\* ---------------------------------------------------------------- part_004, /api/replypilot on OpenAI
S_sorryCouldnt == <<"S","o","r","r","y",","," ","I"," ","c","o","u","l","d","n","'","t"," ","g","e","n","e","r","a","t","e"," ","a"," ","r","e","s","p","o","n","s","e",".">>

\* part_004:22-66: the body is destructured and the call made, with no validation
Start004OpenAI(r) == Call(r, "openai", "openai")

\* part_004:68-76
Resume004OpenAI(r, o) ==
    IF o.throws THEN Fail(r, 500, "Internal server error", "")
    ELSE Ok(r, OrElse(o.content, Str(S_sorryCouldnt)), "", Undef)

\* ---------------------------------------------------------------- part_004, hardened hybrid router
\* the number of matches of /\b(w1|w2|...)\b/gi in s
CountWords(s, words) ==
    Cardinality({i \in 1..Len(s) : \E w \in words : MatchLen(s, i, Rx(w, TRUE, TRUE, FALSE)) > 0})

\* part_004:128-135
looksLikeBadTaglish(s) ==
    LET englishWords == CountWords(s, { <<"t","h","e">>, <<"a","n","d">>, <<"i","s">>, <<"a","r","e">>, <<"w","i","t","h">>, <<"f","o","r">>,
                                        <<"t","h","i","s">>, <<"t","h","a","t">> })
        filipinoWords == CountWords(s, { <<"p","o">>, <<"o","p","o">>, <<"s","a","l","a","m","a","t">>, <<"s","i","g","e">>, <<"p","w","e","d","e">>,
                                         <<"n","a">>, <<"p","a">> })
    IN englishWords > 6 /\ filipinoWords < 2

S_filipino == <<"f","i","l","i","p","i","n","o">>
S_tagalog == <<"t","a","g","a","l","o","g">>

\* part_004:235-259
Start004Hybrid(r) ==
    IF ~Truthy(r.reviewText) THEN Fail(r, 400, "Missing reviewText", "")
    ELSE LET v == OrElse(r.language, Str(<<>>))
         IN IF ~IsStr(v) THEN Fail(r, 500, "Failed to generate reply", "")
            ELSE LET l == Trim(ToLower(v.s))
                     r1 == [r EXCEPT !.lang = Str(l)]
                 IN IF l \in {S_taglish, S_filipino, S_tagalog}
                    THEN IF ~env.openai
                         THEN Fail(r1, 500, "OpenAI key not configured on server.", "")
                         ELSE Call(r1, "openai", "openai")
                    ELSE IF ~env.groq
                         THEN Fail(r1, 500, "Groq key not configured on server.", "")
                         ELSE Call(r1, "groq", "groq")

\* a plausible slip: a throw of the cleanup call is swallowed and the Groq reply sent
Resume004Hybrid_KeepsGroqReply(r, o) ==
    IF o.throws
    THEN IF r.awaiting = "openai-clean" THEN Ok(r, r.first, "groq", Undef)
         ELSE Fail(r, 500, "Failed to generate reply", "")
    ELSE LET rep == OrElse(OptTrim(o.content), Str(<<>>))
         IN CASE r.awaiting = "openai" -> Ok(r, rep, "openai-direct", Undef)
              [] r.awaiting = "groq" ->
                    IF looksLikeBadTaglish(rep.s) /\ env.openai
                    THEN Call([r EXCEPT !.first = rep], "openai-clean", "openai")
                    ELSE Ok(r, rep, "groq", Undef)
              [] OTHER ->
                    Ok(r, OrElse(OptTrim(o.content), r.first), "groq+openai-fallback", Undef)

\* a plausible slip: the cleanup call is made whether or not the OpenAI key is set
Resume004Hybrid_CleansWithoutKey(r, o) ==
    IF o.throws THEN Fail(r, 500, "Failed to generate reply", "")
    ELSE LET rep == OrElse(OptTrim(o.content), Str(<<>>))
         IN CASE r.awaiting = "openai" -> Ok(r, rep, "openai-direct", Undef)
              [] r.awaiting = "groq" ->
                    IF looksLikeBadTaglish(rep.s)
                    THEN Call([r EXCEPT !.first = rep], "openai-clean", "openai")
                    ELSE Ok(r, rep, "groq", Undef)
              [] OTHER ->
                    Ok(r, OrElse(OptTrim(o.content), r.first), "groq+openai-fallback", Undef)

\* part_004:250-278; each generator ends in  content?.trim() || ""  and the
\* cleaner in  content?.trim() || rawText
Resume004Hybrid(r, o) ==
    IF o.throws THEN Fail(r, 500, "Failed to generate reply", "")
    ELSE LET rep == OrElse(OptTrim(o.content), Str(<<>>))
         IN CASE r.awaiting = "openai" -> Ok(r, rep, "openai-direct", Undef)
              [] r.awaiting = "groq" ->
                    IF looksLikeBadTaglish(rep.s) /\ env.openai
                    THEN Call([r EXCEPT !.first = rep], "openai-clean", "openai")
                    ELSE Ok(r, rep, "groq", Undef)
              [] OTHER ->
                    Ok(r, OrElse(OptTrim(o.content), r.first), "groq+openai-fallback", Undef)

\* ---------------------------------------------------------------- server.js, v0.8 hybrid
S_pasensya ==
    <<"P","a","s","e","n","s","y","a"," ","n","a"," ","p","o",","," ","n","a","g","k","a","r","o","o","n"," ","n","g"," ","p","r","o","b","l","e","m","a"," ","s","a"," ","p","a","g","-","g","e","n","e","r","a","t","e"," ","n","g"," ","s","a","g","o","t","."," ","P","a","k","i","-","t","r","y"," ","p","o"," ","u","l","i","t"," ","m","a","m","a","y","a",".">>

\* (language || d).toLowerCase(): the lower-cased characters, or TypeError
LowerOr(language, d) ==
    LET v == OrElse(language, Str(d))
    IN IF IsStr(v) THEN Str(ToLower(v.s)) ELSE TypeError

\* server.js:188-219 generateWithGroq up to its remote call; getLanguagePrompts
\* (server.js:69) lower-cases the language first
GroqCallServer(r, step) ==
    IF LowerOr(r.lang, S_english) = TypeError
    THEN Fail(r, 500, "Failed to generate reply. Please try again later.", "")
    ELSE Call(r, step, "groq")

\* server.js:304-330 with shouldUseOpenAI (server.js:176-185)
StartServer(r) ==
    IF ~Truthy(r.reviewText) \/ ~IsStr(r.reviewText)
    THEN Fail(r, 400, "Missing or invalid 'reviewText' in request body.", "")
    ELSE LET r1 == [r EXCEPT !.lang = OrElse(r.language, Str(S_english))]
             l == LowerOr(r1.lang, <<>>)
         IN IF ~env.openai THEN GroqCallServer(r1, "groq")
            ELSE IF l = TypeError
                 THEN Fail(r1, 500, "Failed to generate reply. Please try again later.", "")
            ELSE IF l.s \in {S_tagalog, S_filipino, S_taglish} THEN Call(r1, "openai", "openai")
            ELSE GroqCallServer(r1, "groq")

\* server.js:221-241 and 281-291: the reply of a generator after its remote call
FinalReplyServer(r, o) ==
    LET rep == OrElse(OptTrim(o.content), Str(S_pasensya))
        l == ToLower(OrElse(r.lang, Str(<<>>)).s)
    IN IF r.awaiting = "openai" THEN normalizeStrictTagalogPoliteness(rep)
       ELSE IF l \in {S_tagalog, S_filipino} THEN normalizeStrictTagalogPoliteness(rep)
       ELSE IF l = S_taglish THEN normalizeTaglish(rep)
       ELSE rep

\* server.js:319-350
ResumeServer(r, o) ==
    IF o.throws
    THEN IF r.awaiting = "openai" THEN GroqCallServer(r, "groq-fallback")
         ELSE Fail(r, 500, "Failed to generate reply. Please try again later.", "")
    ELSE Ok(r, FinalReplyServer(r, o), ProviderOf(r.awaiting), r.lang)

\* ---------------------------------------------------------------- backend/server.js
\* backend/server.js:31-37
StartBootSafe(r) == Fail(r, 503, "AI_DISABLED_TEMP", "")

\* backend/server.js:164-183 normalizeLanguage(raw)
normalizeLanguageBackend(raw) ==
    LET v == ToLower(Trim(ToStr(OrElse(raw, Str(<<>>)))))
    IN CASE v \in { <<"e","n">>, <<"e","n","g">>, S_english } -> "english"
         [] v \in { <<"t","l">>, <<"f","i","l">>, S_filipino, S_tagalog } -> "filipino"
         [] v = S_taglish -> "taglish"
         [] v = S_auto -> "auto"
         [] OTHER -> "english"

\* backend/server.js:293-301 (the dashes of the source are written "-")
fallbackMessage(l) ==
    IF l = "filipino" THEN S_pasensya
    ELSE IF l = "taglish"
         THEN <<"S","o","r","r","y"," ","p","o","-","n","a","g","k","a","-","p","r","o","b","l","e","m"," ","s","a"," ","p","a","g","-","g","e","n","e","r","a","t","e"," ","n","g"," ","r","e","p","l","y","."," ","P","l","e","a","s","e"," ","t","r","y"," ","a","g","a","i","n"," ","l","a","t","e","r",".">>
    ELSE <<"S","o","r","r","y","-","t","h","e","r","e"," ","w","a","s"," ","a"," ","p","r","o","b","l","e","m"," ","g","e","n","e","r","a","t","i","n","g"," ","t","h","e"," ","r","e","p","l","y","."," ","P","l","e","a","s","e"," ","t","r","y"," ","a","g","a","i","n"," ","l","a","t","e","r",".">>

\* backend/server.js:304-322
looksLikeFilipino(s) ==
    LET t == ToLower(s)
        hits == Cardinality({w \in { <<" ","p","o">>, <<" ","s","a","l","a","m","a","t">>, <<" ","p","a","s","e","n","s","y","a">>, <<" ","p","a","u","m","a","n","h","i","n">>,
                                     <<" ","n","a","m","i","n">>, <<" ","i","n","y","o","n","g">>, <<" ","k","a","y","o">>, <<" ","k","a","m","i">>, <<" ","m","u","l","i">>,
                                     <<" ","p","a","g","h","a","t","i","d">>, <<" ","p","a","g","h","a","h","a","t","i","d">> } :
                                RxTest(t, Rx(w, FALSE, FALSE, FALSE))})
    IN hits >= 2

\* backend/server.js:483-509 with shouldUseOpenAI (282-291)
StartBackend(r) ==
    IF ~Truthy(r.reviewText) \/ ~IsStr(r.reviewText)
    THEN Fail(r, 400, "Missing or invalid 'reviewText' in request body.", "")
    ELSE LET r1 == [r EXCEPT !.lang = OrElse(r.language, Str(S_english))]
         IN IF env.openai /\ normalizeLanguageBackend(r1.lang) \in {"filipino", "taglish"}
            THEN Call(r1, "openai", "openai")
            ELSE Call(r1, "groq", "groq")

\* one step of the clean-up of a reply
CleanUpStep(v, step) ==
    CASE step = "trim3" -> trimToMaxSentences(v, 3)
      [] step = "trim4" -> trimToMaxSentences(v, 4)
      [] step = "sellerTone" -> normalizeFilipinoSellerTone(v)
      [] step = "strictTagalog" -> normalizeStrictTagalogPoliteness(v)
      [] step = "taglish" -> normalizeTaglish(v)
      [] OTHER -> dedupePo(v)

\* the steps applied one after the other, each to the result of the one before
RECURSIVE CleanUp(_, _)
CleanUp(v, steps) ==
    IF steps = <<>> THEN v ELSE CleanUp(CleanUpStep(v, Head(steps)), Tail(steps))

\* backend/server.js:393-407 and 449-463: the language-aware clean-up of a reply
PostProcessBackend(rep, l) ==
    CleanUp(rep, CASE l = "filipino" -> <<"trim3", "sellerTone", "strictTagalog", "dedupePo">>
                   [] l = "taglish" -> <<"trim4", "taglish", "dedupePo">>
                   [] l = "english" -> <<"trim4">>
                   [] OTHER -> <<>>)

\* a plausible slip: the English guard rewrites whatever the language of the request
ResumeBackend_RewriteAnyLanguage(r, o) ==
    LET l == normalizeLanguageBackend(r.lang)
    IN IF o.throws
       THEN IF r.awaiting = "openai" THEN Call(r, "groq-fallback", "groq")
            ELSE Fail(r, 500, "Failed to generate reply. Please try again later.", "")
       ELSE LET rep == CASE r.awaiting = "openai" ->
                                OrElse(OptTrim(o.content), Str(fallbackMessage("filipino")))
                         [] r.awaiting = "groq-rewrite" -> OrElse(OptTrim(o.content), r.first)
                         [] OTHER -> OrElse(OptTrim(o.content), Str(fallbackMessage(l)))
            IN IF r.awaiting \in {"groq", "groq-fallback"} /\ looksLikeFilipino(rep.s)
               THEN Call([r EXCEPT !.first = rep], "groq-rewrite", "groq")
               ELSE Ok(r, PostProcessBackend(rep, l), ProviderOf(r.awaiting), r.lang)

\* backend/server.js:496-526 with generateWithGroq (357-414), groqRewriteToEnglish
\* (324-354) and generateWithOpenAI (417-470)
ResumeBackend(r, o) ==
    LET l == normalizeLanguageBackend(r.lang)
    IN IF o.throws
       THEN IF r.awaiting = "openai" THEN Call(r, "groq-fallback", "groq")
            ELSE Fail(r, 500, "Failed to generate reply. Please try again later.", "")
       ELSE LET rep == CASE r.awaiting = "openai" ->
                                OrElse(OptTrim(o.content), Str(fallbackMessage("filipino")))
                         [] r.awaiting = "groq-rewrite" -> OrElse(OptTrim(o.content), r.first)
                         [] OTHER -> OrElse(OptTrim(o.content), Str(fallbackMessage(l)))
            IN IF r.awaiting \in {"groq", "groq-fallback"} /\ l = "english"
                  /\ looksLikeFilipino(rep.s)
               THEN Call([r EXCEPT !.first = rep], "groq-rewrite", "groq")
               ELSE Ok(r, PostProcessBackend(rep, l), ProviderOf(r.awaiting), r.lang)

(***************************************************************************)
(* The rating handed to the prompt builder.                                *)
(***************************************************************************)
\* the number NaN: falsy, and not an integer
NaN == [t |-> "NaN", s |-> <<>>, n |-> 0]

\* the value of a run of digits
RECURSIVE DigitsValue(_)
DigitsValue(d) ==
    IF d = <<>> THEN 0
    ELSE 10 * DigitsValue(SubSeq(d, 1, Len(d) - 1))
         + (CHOOSE k \in 0..9 : DigitChars[k + 1] = d[Len(d)])

IsDigits(d) == d # <<>> /\ \A i \in 1..Len(d) : d[i] \in Range(DigitChars)

\* Number(v) for the values a JSON body can carry; of the numeric strings the
\* integer literals are covered
ToNumber(v) ==
    CASE v.t = "number" -> v
      [] v.t = "null" -> Num(0)
      [] v.t = "string" ->
            LET d == Trim(v.s)
            IN IF d = <<>> THEN Num(0)
               ELSE IF IsDigits(d) THEN Num(DigitsValue(d))
               ELSE IF Head(d) = "-" /\ IsDigits(Tail(d)) THEN Num(0 - DigitsValue(Tail(d)))
               ELSE NaN
      [] OTHER -> NaN

\* part_000:117  rating: req.body.rating || 5
rating000(v) == IF Truthy(v) THEN v ELSE Num(5)

\* part_001:131  rating: Number(req.body?.rating) || 5
rating001(v) == IF Truthy(ToNumber(v)) THEN ToNumber(v) ELSE Num(5)

\* part_003:105 and 123  { rating = 5 } = req.body;  rating: Number(rating) || 5
rating003(v) ==
    LET rating == IF v = Undef THEN Num(5) ELSE v
    IN IF Truthy(ToNumber(rating)) THEN ToNumber(rating) ELSE Num(5)


(***************************************************************************)
(* The cleaning of the API keys read from the environment.                 *)
(***************************************************************************)
S_bearer == <<"b","e","a","r","e","r">>

\* part_000:11  (v ? String(v).trim().replace(/^bearer\s+/i, "") : "")
cleanKey000(v) ==
    IF ~Truthy(v) THEN <<>>
    ELSE LET s == Trim(ToStr(v))
             w == WsRun(s, Len(S_bearer) + 1)
         IN IF LitAt(s, 1, S_bearer, TRUE) /\ w >= 1
            THEN SubSeq(s, Len(S_bearer) + w + 1, Len(s))
            ELSE s

\* part_001:35, the same expression
cleanKey001(v) ==
    IF ~Truthy(v) THEN <<>>
    ELSE LET s == Trim(ToStr(v))
             w == WsRun(s, Len(S_bearer) + 1)
         IN IF LitAt(s, 1, S_bearer, TRUE) /\ w >= 1
            THEN SubSeq(s, Len(S_bearer) + w + 1, Len(s))
            ELSE s

\* part_004:97-103: the prefix tested is "bearer " with a space, seven
\* characters are cut and the rest is trimmed again
cleanKey004(v) ==
    IF ~Truthy(v) THEN <<>>
    ELSE LET s == Trim(ToStr(v))
         IN IF LitAt(ToLower(s), 1, S_bearer \o <<" ">>, FALSE)
            THEN Trim(SubSeq(s, 8, Len(s)))
            ELSE s
(***************************************************************************)
(* The running process: one server variant, its environment, and requests  *)
(* handled one after the other.                                            *)
(***************************************************************************)
StartOf(r) ==
    CASE variant = "part_000" -> Start000(r)
      [] variant = "part_001" -> Start001(r)
      [] variant = "part_002" -> Start002(r)
      [] variant = "part_003" -> Start003(r)
      [] variant = "part_004_openai" -> Start004OpenAI(r)
      [] variant = "part_004_hybrid" -> Start004Hybrid(r)
      [] variant = "server" -> StartServer(r)
      [] variant = "backend_bootsafe" -> StartBootSafe(r)
      [] OTHER -> StartBackend(r)

ResumeOf(r, o) ==
    LET r1 == [r EXCEPT !.results = Append(@, o)]
    IN CASE variant = "part_000" -> Resume000(r1, o)
         [] variant = "part_001" -> Resume001(r1, o)
         [] variant \in {"part_002", "part_003"} -> ResumeReplypilotGroq(r1, o)
         [] variant = "part_004_openai" -> Resume004OpenAI(r1, o)
         [] variant = "part_004_hybrid" -> Resume004Hybrid(r1, o)
         [] variant = "server" -> ResumeServer(r1, o)
         [] OTHER -> ResumeBackend(r1, o)

\* the review texts and language fields of the request bodies
S_itemArrived == <<"I","t","e","m"," ","a","r","r","i","v","e","d"," ","q","u","i","c","k","l","y"," ","a","n","d"," ","w","a","s"," ","w","e","l","l"," ","p","a","c","k","e","d",".">>
ReviewTexts ==
    { Undef, Str(<<>>), Str(<<" "," ">>), Num(5),
      Str(S_itemArrived), Str(<<"S","a","l","a","m","a","t"," ","p","o",","," ","m","a","b","i","l","i","s"," ","d","u","m","a","t","i","n","g",".">>) }
Languages == { Undef, Num(5), Str(S_auto), Str(S_english), Str(S_taglish), Str(<<"T","a","g","a","l","o","g">>) }

\* what a provider can return: no content, blank text, English and Taglish
\* replies, an English reply dense in function words, a Filipino reply, and a
\* reply of five sentences
S_denseEnglish == <<"T","h","i","s"," ","i","s"," ","t","h","e"," ","i","t","e","m"," ","a","n","d"," ","t","h","a","t"," ","i","s"," ","f","o","r"," ","y","o","u"," ","w","i","t","h"," ","c","a","r","e",".">>
S_fiveSentences == <<"T","h","a","n","k","s","!"," ","W","e"," ","a","r","e"," ","g","l","a","d","."," ","E","n","j","o","y"," ","i","t","."," ","C","o","m","e"," ","a","g","a","i","n","?"," ","B","y","e",".">>
Contents ==
    { Null, Str(<<>>), Str(<<" ">>), Str(<<"T","h","a","n","k"," ","y","o","u",".">>), Str(<<"S","a","l","a","m","a","t"," ","p","o","!">>),
      Str(S_denseEnglish), Str(<<"M","a","r","a","m","i","n","g"," ","s","a","l","a","m","a","t"," ","p","o",".">>), Str(S_fiveSentences) }

\* a non-empty reply was sent with status 200
SentReply(r) == r.status = 200 /\ IsStr(r.reply) /\ r.reply.s # <<>>

\* usageTracker[c], 0 for a caller the map does not hold
UsageOf(c) == IF c \in DOMAIN usageTracker THEN usageTracker[c] ELSE 0

Init ==
    /\ variant \in Variants
    /\ env \in {e \in [groq : BOOLEAN, gemini : BOOLEAN, openai : BOOLEAN] :
                  \A k \in {"groq", "gemini", "openai"} : e[k] => k \in KeysOf(variant)}
    /\ req = NoReq
    /\ usageTracker = <<>>                  \* const usageTracker = {};
    /\ served = [c \in Callers |-> 0]
    /\ arrivals = 0
    /\ inflight = [c \in Callers |-> NoReq]
    /\ accepted = <<>>
    /\ fn = "none"
    /\ text = <<>>
    /\ hint = Undef
    /\ out = Undef
    /\ out2 = Undef

\* A POST arrives and its handler runs to its first remote call or to its response.
Receive ==
    /\ req.pc = "idle"
    /\ arrivals < MaxRequests
    /\ \E c \in Callers, rt \in ReviewTexts, lg \in Languages :
          req' = StartOf(NewReq(c, rt, lg))
    /\ arrivals' = arrivals + 1
    /\ UNCHANGED <<variant, env, usageTracker, served>>
    /\ UNCHANGED concVars
    /\ UNCHANGED fnVars

\* the handler after the outcome o of its pending call; no variant writes usageTracker
Resolved(o) ==
    /\ req' = ResumeOf(req, o)
    /\ served' = IF SentReply(req') THEN [served EXCEPT ![req.caller] = @ + 1] ELSE served
    /\ UNCHANGED <<variant, env, usageTracker, arrivals>>
    /\ UNCHANGED concVars
    /\ UNCHANGED fnVars

\* The pending remote call returns; a provider answers only a call that carries a key.
ProviderReturns ==
    /\ req.pc = "await"
    /\ env[ProviderOf(req.awaiting)]
    /\ \E c \in Contents : Resolved(Returned(c))

\* The pending remote call fails (network, auth, quota).
ProviderThrows ==
    /\ req.pc = "await"
    /\ Resolved(Thrown)

\* The response is out; the request is discarded.
Close ==
    /\ req.pc = "done"
    /\ req' = NoReq
    /\ UNCHANGED <<variant, env, usageTracker, served, arrivals>>
    /\ UNCHANGED concVars
    /\ UNCHANGED fnVars

Next ==
    \/ Receive
    \/ ProviderReturns
    \/ ProviderThrows
    \/ Close

Spec == Init /\ [][Next]_vars

\* the state of the request variables in the checks of the pure functions
InitIdleRequests ==
    /\ variant = "none"
    /\ env = [groq |-> FALSE, gemini |-> FALSE, openai |-> FALSE]
    /\ req = NoReq
    /\ usageTracker = <<>>
    /\ served = [c \in Callers |-> 0]
    /\ arrivals = 0
    /\ inflight = [c \in Callers |-> NoReq]
    /\ accepted = <<>>

\* the variants that route a request between providers by its language
RouterVariants == {"part_000", "part_001", "part_004_hybrid", "server", "backend_server"}

\* a request whose handler has run, in a variant that can reach a provider
Handled == req.pc # "idle" /\ variant # "backend_bootsafe"

\* the outcome of the i-th remote call was text
ReturnedText(i) ==
    /\ ~req.results[i].throws
    /\ IsStr(req.results[i].content)
    /\ Trim(req.results[i].content.s) # <<>>

\* C1: a request whose body has no reviewText never starts a provider call and
\* is answered with status 400.
C1_MissingReviewTextIs400 ==
    (Handled /\ req.reviewText = Undef) =>
        /\ req.calls = <<>>
        /\ req.pc = "done" => req.status = 400

\* C2: with the language resolved to taglish, when the provider tried first
\* throws and the Groq fallback returns text, the response is a 200 with a
\* non-empty reply whose engine field differs from the value of a direct Groq call.
C2_FallbackIsMarked ==
    ( /\ req.pc = "done"
      /\ IsStr(req.lang) /\ ToLower(req.lang.s) = S_taglish
      /\ Len(req.calls) = 2
      /\ req.results[1].throws
      /\ req.calls[2] = "groq"
      /\ ReturnedText(2) ) =>
        /\ SentReply(req)
        /\ req.engine # "groq"

\* C3: for a request whose language is explicitly "english" the router calls
\* only Groq, and a 200 response carries language "english".
C3_EnglishOnlyGroq ==
    (variant \in RouterVariants /\ req.pc # "idle" /\ req.language = Str(S_english)) =>
        /\ \A i \in 1..Len(req.calls) : req.calls[i] = "groq"
        /\ (req.pc = "done" /\ req.status = 200) => req.respLanguage = Str(S_english)

\* C10: the usage counter of a caller goes up by one with each of its requests
\* that ends in a 200 with a non-empty reply: after two such requests it is 2.
C10_UsageCountsServedReplies ==
    \A c \in Callers :
        (variant = "part_000" /\ served[c] = 2) => UsageOf(c) = 2

\* the part of C3 about the providers alone: only Groq is called for "english"
C3_EnglishCallsOnlyGroq ==
    (variant \in RouterVariants /\ req.pc # "idle" /\ req.language = Str(S_english)) =>
        \A i \in 1..Len(req.calls) : req.calls[i] = "groq"

\* every remote call of the request has returned, and none returned usable text:
\* each content is null, undefined or the empty string
NoUsableText ==
    /\ req.calls # <<>>
    /\ Len(req.results) = Len(req.calls)
    /\ \A i \in 1..Len(req.results) :
          /\ ~req.results[i].throws
          /\ (Nullish(req.results[i].content) \/ req.results[i].content = Str(<<>>))

\* C11: when the provider calls of a request return without throwing but yield no
\* usable text, the routers answer 502 or 500 and never 200.
C11_EmptyReplyIsAnError ==
    ( /\ variant \in {"part_000", "part_001", "part_004_hybrid"}
      /\ req.pc = "done"
      /\ NoUsableText ) =>
        req.status \in {500, 502}

\* the part of C11 that part_001 keeps: its empty reply is a 502 EMPTY_REPLY
C11_Part001EmptyReplyIs502 ==
    (variant = "part_001" /\ req.pc = "done" /\ NoUsableText) =>
        req.status = 502 /\ req.error = "EMPTY_REPLY"

\* C12: a provider whose credential is absent is never called.
C12_NoCallWithoutCredential ==
    \A i \in 1..Len(req.calls) : env[req.calls[i]]

\* the part of C12 that the guarded routers keep: part_000, part_001, part_003 and
\* the hardened hybrid of part_004 never call a provider without its credential
C12_GuardedRoutersNeverCall ==
    variant \in {"part_000", "part_001", "part_003", "part_004_hybrid"} =>
        \A i \in 1..Len(req.calls) : env[req.calls[i]]

\* the provider a router tries first for the language it resolved
FirstProvider ==
    IF variant = "part_001"
    THEN (IF req.lang = Str(S_taglish) THEN "gemini" ELSE "groq")
    ELSE (IF req.lang.s \in {S_taglish, S_filipino, S_tagalog} THEN "openai" ELSE "groq")

\* the codes of the configuration errors
ConfigurationErrors ==
    { "GROQ_NOT_CONFIGURED", "GEMINI_NOT_CONFIGURED",
      "OpenAI key not configured on server.", "Groq key not configured on server." }

\* C13: when the credential of the provider a request needs first is absent, the
\* request ends in a 500 with a configuration-error code and no provider call is
\* made for it, the provider tried first for taglish included.
C13_ConfigurationErrorNotRetried ==
    ( /\ variant \in {"part_001", "part_004_hybrid"}
      /\ req.pc # "idle"
      /\ IsStr(req.lang)
      /\ ~env[FirstProvider] ) =>
        /\ req.calls = <<>>
        /\ req.pc = "done"
        /\ req.status = 500
        /\ req.error \in ConfigurationErrors \/ req.details \in ConfigurationErrors

\* the part of C13 that holds: the hardened hybrid of part_004 answers a missing
\* credential with its 500 and makes no call
C13_HybridConfigurationError ==
    ( /\ variant = "part_004_hybrid"
      /\ req.pc # "idle"
      /\ IsStr(req.lang)
      /\ ~env[FirstProvider] ) =>
        /\ req.calls = <<>>
        /\ req.pc = "done"
        /\ req.status = 500
        /\ req.error \in ConfigurationErrors

\* C14: handling one request starts at most two remote provider calls.
C14_AtMostTwoCalls == Len(req.calls) <= 2

\* a request answered after a first call that threw and a second call
C14_Witness ==
    /\ req.pc = "done"
    /\ Len(req.calls) = 2
    /\ req.results[1].throws

\* C15: the language field of every 200 response is a resolved label, never "auto".
C15_LanguageResolved ==
    ( /\ variant \in {"part_000", "part_001", "server", "backend_server"}
      /\ req.pc = "done"
      /\ req.status = 200 ) =>
        /\ IsStr(req.respLanguage)
        /\ req.respLanguage.s # S_auto

\* the part of C15 that part_000 and part_001 keep: they answer "english" or "taglish"
C15_ClassifierLanguageResolved ==
    (variant \in {"part_000", "part_001"} /\ req.pc = "done" /\ req.status = 200) =>
        req.respLanguage \in {Str(S_english), Str(S_taglish)}

\* the Gemini attempt of the request failed: its remote call threw, or geminiReply
\* threw before the call for want of a client
GeminiFailed ==
    \/ Len(req.calls) = 2 /\ req.calls[1] = "gemini" /\ req.results[1].throws
    \/ Len(req.calls) = 1 /\ req.lang = Str(S_taglish) /\ ~env.gemini

C18_UpstreamErrorIs500 ==
    LET n == Len(req.results)
        failed == n >= 1 /\ req.results[n].throws
    IN /\ (failed /\ (n = 2 \/ req.calls[1] = "groq")) =>
              req.pc = "done" /\ Len(req.calls) = n
       /\ (failed /\ req.pc = "done") =>
              /\ req.status = 500
              /\ req.reply = Undef
              /\ req.error # ""

\* a taglish request whose first call and whose fallback call both threw
C18_Witness ==
    /\ req.pc = "done"
    /\ req.status = 500
    /\ Len(req.results) = 2
    /\ req.results[1].throws
    /\ req.results[2].throws

(***************************************************************************)
(* Concurrent handling: the framework runs each request as its own         *)
(* asynchronous task, and the handlers of several requests interleave at   *)
(* their awaits.                                                           *)
(***************************************************************************)
\* the bodies and provider outputs of the concurrent requests
ConcurrentReviewTexts == { Str(<<"S","a","l","a","m","a","t"," ","p","o",","," ","m","a","b","i","l","i","s"," ","d","u","m","a","t","i","n","g",".">>) }
ConcurrentLanguages == { Undef, Str(S_english), Str(S_taglish) }
ConcurrentContents == { Str(<<>>), Str(<<"T","h","a","n","k"," ","y","o","u",".">>), Str(S_denseEnglish) }

\* a plausible slip: lang is declared at module level, and a handler resumed
\* after its await reads the value written by the request accepted last
HandlerState_SharedLang(c) ==
    [inflight[c] EXCEPT !.lang = inflight[accepted[Len(accepted)]].lang]

\* What the handler of caller c reads when it resumes: the const and let of its
\* own invocation of the handler function.
HandlerState(c) == inflight[c]

InitConcurrent ==
    /\ variant \in Variants \ {"backend_bootsafe"}
    /\ env \in {e \in [groq : BOOLEAN, gemini : BOOLEAN, openai : BOOLEAN] :
                  \A k \in {"groq", "gemini", "openai"} : e[k] => k \in KeysOf(variant)}
    /\ req = NoReq
    /\ usageTracker = <<>>
    /\ served = [c \in Callers |-> 0]
    /\ arrivals = 0
    /\ inflight = [c \in Callers |-> NoReq]
    /\ accepted = <<>>
    /\ fn = "none"
    /\ text = <<>>
    /\ hint = Undef
    /\ out = Undef
    /\ out2 = Undef

\* A POST of caller c arrives while other requests may be suspended.
ReceiveConcurrent ==
    /\ \E c \in Callers, rt \in ConcurrentReviewTexts, lg \in ConcurrentLanguages :
          /\ inflight[c].pc = "idle"
          /\ inflight' = [inflight EXCEPT ![c] = StartOf(NewReq(c, rt, lg))]
          /\ accepted' = Append(accepted, c)
    /\ arrivals' = arrivals + 1
    /\ UNCHANGED <<variant, env, req, usageTracker, served>>
    /\ UNCHANGED fnVars

\* the handler of caller c after the outcome o of its pending call
ResolvedConcurrent(c, o) ==
    /\ inflight' = [inflight EXCEPT ![c] = ResumeOf(HandlerState(c), o)]
    /\ served' = IF SentReply(inflight'[c]) THEN [served EXCEPT ![c] = @ + 1] ELSE served
    /\ UNCHANGED <<variant, env, req, usageTracker, arrivals, accepted>>
    /\ UNCHANGED fnVars

\* The pending call of one of the suspended requests returns.
ReturnsConcurrent ==
    \E c \in Callers, x \in ConcurrentContents :
        /\ inflight[c].pc = "await"
        /\ env[ProviderOf(inflight[c].awaiting)]
        /\ ResolvedConcurrent(c, Returned(x))

\* The pending call of one of the suspended requests fails.
ThrowsConcurrent ==
    \E c \in Callers :
        /\ inflight[c].pc = "await"
        /\ ResolvedConcurrent(c, Thrown)

NextConcurrent ==
    \/ ReceiveConcurrent
    \/ ReturnsConcurrent
    \/ ThrowsConcurrent

SpecConcurrent == InitConcurrent /\ [][NextConcurrent]_vars

\* the request handled alone: its handler run from the same body, resumed with
\* the same provider outcomes res[k], res[k+1], ...
RECURSIVE Replay(_, _, _)
Replay(q, res, k) ==
    IF k > Len(res) \/ q.pc # "await" THEN q
    ELSE Replay(ResumeOf(q, res[k]), res, k + 1)
Alone(r) == Replay(StartOf(NewReq(r.caller, r.reviewText, r.language)), r.results, 1)

\* the response of a request
Response(r) ==
    [status |-> r.status, reply |-> r.reply, engine |-> r.engine,
     language |-> r.respLanguage, error |-> r.error, details |-> r.details]

WordRuns(t) ==
    { p \in (1..Len(t)) \X (1..Len(t)) :
        /\ p[1] <= p[2]
        /\ \A k \in p[1]..p[2] : IsWordCh(t[k])
        /\ (p[1] = 1 \/ ~IsWordCh(t[p[1] - 1]))
        /\ (p[2] = Len(t) \/ ~IsWordCh(t[p[2] + 1])) }

\* the number of words of t that are, whatever their case, in the list
WordCount(t, list) ==
    Cardinality({p \in WordRuns(t) : ToLower(SubSeq(t, p[1], p[2])) \in list})

\* the output-quality heuristic of the hardened hybrid: more than 6 English
\* function words and fewer than 2 Filipino ones
FlaggedBadTaglish(t) ==
    /\ WordCount(t, { <<"t","h","e">>, <<"a","n","d">>, <<"i","s">>, <<"a","r","e">>, <<"w","i","t","h">>, <<"f","o","r">>, <<"t","h","i","s">>,
                      <<"t","h","a","t">> }) > 6
    /\ WordCount(t, { <<"p","o">>, <<"o","p","o">>, <<"s","a","l","a","m","a","t">>, <<"s","i","g","e">>, <<"p","w","e","d","e">>, <<"n","a">>, <<"p","a">> }) < 2

\* the lower-cased text t holds w
Includes(t, w) ==
    \E i \in 1..(Len(t) - Len(w) + 1) : SubSeq(ToLower(t), i, i + Len(w) - 1) = w

\* the English guard of backend/server.js: at least 2 Filipino markers in the text
FlaggedFilipino(t) ==
    Cardinality({w \in { <<" ","p","o">>, <<" ","s","a","l","a","m","a","t">>, <<" ","p","a","s","e","n","s","y","a">>, <<" ","p","a","u","m","a","n","h","i","n">>, <<" ","n","a","m","i","n">>,
                         <<" ","i","n","y","o","n","g">>, <<" ","k","a","y","o">>, <<" ","k","a","m","i">>, <<" ","m","u","l","i">>, <<" ","p","a","g","h","a","t","i","d">>,
                         <<" ","p","a","g","h","a","h","a","t","i","d">> } : Includes(t, w)}) >= 2

\* the text the first call of the request produced, d when it returned none
FirstOutput(d) ==
    LET c == req.results[1].content
    IN IF Nullish(c) \/ Trim(c.s) = <<>> THEN d ELSE Trim(c.s)

\* the request is on the English path and its first call, to Groq, has returned
EnglishFirstReturned ==
    /\ req.pc # "idle"
    /\ Len(req.results) >= 1
    /\ req.calls[1] = "groq"
    /\ ~req.results[1].throws

\* C20: on the English path the corrective call is made exactly when the
\* heuristic flags the first output (and, in the hardened hybrid, the OpenAI key
\* is set); it is another call than the one that produced the output; and the
\* engine of the hardened hybrid is "groq+openai-fallback" exactly when the
\* cleanup call was made, "groq" otherwise.
C20_CorrectiveCallWhenFlagged ==
    /\ (variant = "part_004_hybrid" /\ EnglishFirstReturned) =>
          /\ Len(req.calls) = 2 <=> (FlaggedBadTaglish(FirstOutput(<<>>)) /\ env.openai)
          /\ Len(req.calls) = 2 => req.calls[2] = "openai"
          /\ (req.pc = "await") => req.awaiting = "openai-clean"
          /\ (req.pc = "done" /\ req.status = 200) =>
                req.engine = (IF Len(req.calls) = 2 THEN "groq+openai-fallback" ELSE "groq")
    /\ ( /\ variant = "backend_server"
         /\ EnglishFirstReturned
         /\ normalizeLanguageBackend(req.lang) = "english" ) =>
          /\ Len(req.calls) = 2 <=> FlaggedFilipino(FirstOutput(fallbackMessage("english")))
          /\ (req.pc = "await") => req.awaiting = "groq-rewrite"

\* an English request of the hardened hybrid answered after the cleanup call
C20_Witness ==
    /\ variant = "part_004_hybrid"
    /\ req.pc = "done"
    /\ req.status = 200
    /\ req.engine = "groq+openai-fallback"
    /\ req.calls = <<"groq", "openai">>

\* an English request of backend/server.js answered after the rewrite call
C20_RewriteWitness ==
    /\ variant = "backend_server"
    /\ req.pc = "done"
    /\ req.status = 200
    /\ req.calls = <<"groq", "groq">>


(***************************************************************************)
(* The sentence limit of the v0.8 generators.                              *)
(***************************************************************************)
\* the pieces of t under a split on whitespace that follows '.', '!' or '?':
\* one more than the places where such a whitespace run starts
SentenceCount(t) ==
    1 + Cardinality({j \in 2..Len(t) : t[j - 1] \in {".", "!", "?"} /\ IsSpaceCh(t[j])})

\* the sentence limit the language of a request calls for
SentenceLimit(l) == IF l = "filipino" THEN 3 ELSE 4

\* a v0.8 generator of backend/server.js returned and its reply was sent
GeneratorReplied ==
    /\ variant = "backend_server"
    /\ req.pc = "done"
    /\ req.status = 200
    /\ IsStr(req.reply)

\* C21: the reply of generateWithGroq and generateWithOpenAI holds at most 3
\* sentences when the language of the request normalizes to filipino and at
\* most 4 for every other language value, "auto" and unknown values included.
C21_ReplyTruncated ==
    GeneratorReplied =>
        SentenceCount(req.reply.s) <= SentenceLimit(normalizeLanguageBackend(req.lang))

\* C21, the languages the clean-up has a branch for: filipino, taglish and
\* english (to which unknown values normalize) are truncated.
C21_BranchedLanguagesTruncated ==
    (GeneratorReplied /\ normalizeLanguageBackend(req.lang) # "auto") =>
        SentenceCount(req.reply.s) <= SentenceLimit(normalizeLanguageBackend(req.lang))

(***************************************************************************)
(* One response for each request.                                          *)
(***************************************************************************)
\* Requests under the assumption that a started provider call eventually
\* returns or throws.  What a handler does with one request does not depend on
\* the requests before it, so the number of arrivals has a bound of its own.
ReceiveLive ==
    /\ arrivals < MaxLiveRequests
    /\ Receive

NextLive ==
    \/ ReceiveLive
    \/ ProviderThrows
    \/ ProviderReturns
    \/ Close

SpecLive == Init /\ [][NextLive]_vars /\ WF_vars(ProviderThrows \/ ProviderReturns)

\* C23: every POST to a reply endpoint receives exactly one response: the
\* handler never sends a second one, a request whose handler has finished has
\* its response, and, each started provider call returning or throwing in the
\* end, a request waiting for a provider gets its response.
C23_ExactlyOneResponse ==
    /\ [](req.sent <= 1)
    /\ [](req.pc \in {"idle", "await", "done"})
    /\ [](req.pc = "done" <=> req.sent = 1)
    /\ (req.pc = "await") ~> (req.pc = "done" /\ req.sent = 1)

\* a request answered after its first call threw and the fallback call returned
C23_Witness ==
    /\ req.pc = "done"
    /\ req.sent = 1
    /\ Len(req.calls) = 2
    /\ req.results[1].throws
    /\ ~req.results[2].throws

(***************************************************************************)
(* The reply of a 200 response.                                            *)
(***************************************************************************)
\* a 200 response of a reply endpoint
Replied200 == req.pc = "done" /\ req.status = 200

\* C24: the reply of every 200 response is a non-empty string after
\* post-processing, also when the provider returned only whitespace.
C24_ReplyNonEmpty ==
    Replied200 => (IsStr(req.reply) /\ req.reply.s # <<>>)

\* the part of C24 that holds in part_001: a reply with a character that is not
\* whitespace, or a taglish reply, is sent non-empty, and a provider result of
\* no characters at all is answered 502
C24_Part001NonBlankReply ==
    (variant = "part_001" /\ Replied200) =>
        /\ IsStr(req.reply)
        /\ req.results[Len(req.results)].content.s # <<>>
        /\ (req.reply.s = <<>>) =>
              /\ req.lang = Str(S_english)
              /\ Trim(req.results[Len(req.results)].content.s) = <<>>

(***************************************************************************)
(* Both providers of the taglish path fail.                                *)
(***************************************************************************)
\* the Gemini call threw and the Groq call made in its place threw as well
BothProvidersThrew ==
    /\ variant \in {"part_000", "part_001"}
    /\ req.calls = <<"gemini", "groq">>
    /\ Len(req.results) = 2
    /\ req.results[1].throws
    /\ req.results[2].throws

\* the message of the error a 500 response reports: the details field of
\* part_001:156, the error field of part_000:144
ReportedError == IF variant = "part_001" THEN req.details ELSE req.error

\* C25: on the taglish path, when the Gemini call threw and the Groq fallback
\* call threw too, the request ends with status 500 and no reply, no third
\* call is made, and the error reported is that of the Groq call, the error of
\* the Gemini call being discarded.
C25_BothFailIs500 ==
    BothProvidersThrew =>
        /\ req.lang = Str(S_taglish)
        /\ req.pc = "done"
        /\ req.status = 500
        /\ req.sent = 1
        /\ req.reply = Undef
        /\ Len(req.calls) = 2
        /\ ReportedError = UpstreamMessage("groq-fallback")
        /\ UpstreamMessage("gemini") \notin {req.error, req.details}

\* part_001 answered 500 after both calls threw
C25_Witness ==
    /\ BothProvidersThrew
    /\ variant = "part_001"
    /\ req.status = 500
    /\ req.details = UpstreamMessage("groq-fallback")

(***************************************************************************)
(* Validation of the review text.                                          *)
(***************************************************************************)
\* the endpoints whose validation of reviewText the statement is about
ValidatingVariants == {"part_002", "part_003", "server"}

\* a reviewText that is present and is an empty string, a string of whitespace
\* only, or not a string
UnusableReviewText(v) ==
    /\ v # Undef
    /\ IsStr(v) => Trim(v.s) = <<>>

\* C26: a request whose reviewText is an empty string, a whitespace-only
\* string or a non-string value is rejected with status 400 before any
\* provider call, and never with a 5xx status.
C26_UnusableReviewTextIs400 ==
    (variant \in ValidatingVariants /\ req.pc # "idle" /\ UnusableReviewText(req.reviewText)) =>
        /\ req.calls = <<>>
        /\ req.pc = "done"
        /\ req.status = 400

\* the part of C26 that holds: the empty string is rejected with 400 and no
\* call by each of the three handlers, whitespace by part_003, and a
\* non-string by server.js
C26_EmptyStringIs400 ==
    ( /\ variant \in ValidatingVariants
      /\ req.pc # "idle"
      /\ \/ req.reviewText = Str(<<>>)
         \/ variant = "part_003" /\ IsStr(req.reviewText) /\ Trim(req.reviewText.s) = <<>>
         \/ variant = "server" /\ req.reviewText # Undef /\ ~IsStr(req.reviewText) ) =>
        /\ req.calls = <<>>
        /\ req.pc = "done"
        /\ req.status = 400

(***************************************************************************)
(* The politeness particle of a taglish reply.                             *)
(***************************************************************************)
\* t holds "po", in any case, as a whole word
HasWordPo(t) == WordCount(t, {S_po}) >= 1

\* C27: every 200 response whose language is "taglish" has a reply that holds
\* the particle "po" as a whole word.
C27_TaglishReplyHasPo ==
    (Replied200 /\ req.respLanguage = Str(S_taglish)) =>
        /\ IsStr(req.reply)
        /\ HasWordPo(req.reply.s)

\* the part of C27 that holds, in the routers that run polish: a taglish reply
\* holds the particle, " Salamat po!" being appended exactly when the trimmed
\* text of the provider has no whole-word "po" (none of the provider texts of
\* the model holds a phrase polish rewrites)
C27_PolishAddsPoWhenAbsent ==
    (variant \in {"part_000", "part_001"} /\ Replied200 /\ req.respLanguage = Str(S_taglish)) =>
        /\ IsStr(req.reply)
        /\ HasWordPo(req.reply.s)
        /\ req.reply.s =
              (IF HasWordPo(req.results[Len(req.results)].content.s)
               THEN Trim(req.results[Len(req.results)].content.s)
               ELSE Trim(req.results[Len(req.results)].content.s \o S_salamatPo))
(***************************************************************************)
(* The classifier applied to bounded inputs.                               *)
(***************************************************************************)
\* pieces the review texts are built from: markers, a marker inside another
\* word, upper case, and separators that are and are not word characters
LangChunks == { <<"p","o">>, <<"o","p","o">>, <<"n","g">>, <<"S","a","n","a">>, <<" ">>, <<"x">>, <<",">> }
LangTexts == {Concat(p) : p \in SeqsUpTo(LangChunks, MaxLangChunks)}

\* the values the language field of a JSON body can carry
Hints ==
    { Undef, Null, Obj, Num(0), Num(5),
      Str(<<>>), Str(S_auto), Str(S_english), Str(S_taglish),
      Str(<<"E","n","g","l","i","s","h">>), Str(<<" ","T","A","G","L","I","S","H"," ">>), Str(<<"t","a","g","a","l","o","g">>) }

NoResult == NLResult("none", FALSE)

InitClassifier ==
    /\ InitIdleRequests
    /\ fn = "none"
    /\ text \in LangTexts
    /\ hint = Undef
    /\ out = NoResult
    /\ out2 = NoResult

DetectLanguage000 ==
    /\ fn = "none"
    /\ fn' = "detectLanguage000"
    /\ out' = NLResult(detectLanguage000(text), TRUE)
    /\ UNCHANGED <<text, hint, out2>>
    /\ UNCHANGED reqVars

DetectLanguage001 ==
    /\ fn = "none"
    /\ fn' = "detectLanguage001"
    /\ out' = NLResult(detectLanguage001(text), TRUE)
    /\ UNCHANGED <<text, hint, out2>>
    /\ UNCHANGED reqVars

NormalizeLanguage000 ==
    /\ fn = "none"
    /\ \E h \in Hints :
          /\ hint' = h
          /\ out' = normalizeLanguage000(h, text)
    /\ fn' = "normalizeLanguage000"
    /\ UNCHANGED <<text, out2>>
    /\ UNCHANGED reqVars

NormalizeLanguage001 ==
    /\ fn = "none"
    /\ \E h \in Hints :
          /\ hint' = h
          /\ out' = normalizeLanguage001(h, text)
    /\ fn' = "normalizeLanguage001"
    /\ UNCHANGED <<text, out2>>
    /\ UNCHANGED reqVars

\* the values the rating field of a JSON body can carry
Ratings ==
    { Undef, Null, Obj, Str(<<>>), Str(<<"a","b","c">>), Str(<<"4">>), Str(<<" ","3"," ">>), Str(<<"9">>),
      Num(0 - 1), Num(0), Num(1), Num(3), Num(5), Num(6), Num(9) }

Rating000 ==
    /\ fn = "none"
    /\ \E v \in Ratings :
          /\ hint' = v
          /\ out' = rating000(v)
    /\ fn' = "rating000"
    /\ UNCHANGED <<text, out2>>
    /\ UNCHANGED reqVars

Rating001 ==
    /\ fn = "none"
    /\ \E v \in Ratings :
          /\ hint' = v
          /\ out' = rating001(v)
    /\ fn' = "rating001"
    /\ UNCHANGED <<text, out2>>
    /\ UNCHANGED reqVars

Rating003 ==
    /\ fn = "none"
    /\ \E v \in Ratings :
          /\ hint' = v
          /\ out' = rating003(v)
    /\ fn' = "rating003"
    /\ UNCHANGED <<text, out2>>
    /\ UNCHANGED reqVars

NextClassifier ==
    \/ DetectLanguage000
    \/ DetectLanguage001
    \/ NormalizeLanguage000
    \/ NormalizeLanguage001
    \/ Rating000
    \/ Rating001
    \/ Rating003

SpecClassifier == InitClassifier /\ [][NextClassifier]_vars

\* The words of a text: its maximal runs of word characters.
WordsOf(t) ==
    { SubSeq(t, i, j) : <<i, j>> \in
        { p \in (1..Len(t)) \X (1..Len(t)) :
            /\ p[1] <= p[2]
            /\ \A k \in p[1]..p[2] : IsWordCh(t[k])
            /\ (p[1] = 1 \/ ~IsWordCh(t[p[1] - 1]))
            /\ (p[2] = Len(t) \/ ~IsWordCh(t[p[2] + 1])) } }
\* the distinct markers among the words of the lower-cased text
MarkerWords(t) == markers \cap WordsOf(ToLower(t))

\* C4: detectLanguage returns "taglish" exactly when the lower-cased text holds,
\* as whole words, at least 2 distinct markers of the list, and "english" when it
\* holds 0 or 1; a marker repeated any number of times counts once.
C4_DetectCountsDistinctMarkers ==
    fn \in {"detectLanguage000", "detectLanguage001"} =>
        out.val = (IF Cardinality(MarkerWords(text)) >= 2 THEN "taglish" ELSE "english")

\* a text with exactly two distinct markers, one of them written in upper case,
\* classified taglish
C4_Witness ==
    /\ fn = "detectLanguage000"
    /\ out.val = "taglish"
    /\ Cardinality(MarkerWords(text)) = 2
    /\ text # ToLower(text)

\* C5: normalizeLanguage(language, text) has no error outcome: for every value of
\* the hint a request body can carry and every text it returns "english" or
\* "taglish" and never throws.
C5_NormalizeLanguageTotal ==
    fn \in {"normalizeLanguage000", "normalizeLanguage001"} =>
        out.val \in {"english", "taglish"}

\* C6: a hint that is one of the two labels is returned whatever the text is,
\* and the text is inspected only for another hint.
C6_ConcreteHintWins ==
    (fn \in {"normalizeLanguage000", "normalizeLanguage001"}
        /\ hint \in {Str(S_english), Str(S_taglish)}) =>
            /\ out.val = LabelOf(hint.s)
            /\ ~out.detect

\* the hint says english while the marker count of the text says taglish
C6_Witness ==
    /\ fn = "normalizeLanguage001"
    /\ hint = Str(S_english)
    /\ detectLanguage001(text) = "taglish"
    /\ out = NLResult("english", FALSE)


\* C17: the rating handed to the prompt builder is an integer in 1..5: an absent
\* or non-numeric rating becomes 5 and a number outside the range is clamped.
C17_RatingInRange ==
    fn \in {"rating001", "rating003"} =>
        /\ out.t = "number"
        /\ out.n \in 1..5
        /\ ToNumber(hint) = NaN => out = Num(5)

\* the part of C17 that holds: an absent, non-numeric or zero rating becomes 5,
\* and every other number is handed over as it is
C17_RatingDefaultsToFive ==
    fn \in {"rating001", "rating003"} =>
        out = (IF hint = Undef \/ ToNumber(hint) \in {NaN, Num(0)} THEN Num(5)
               ELSE ToNumber(hint))

(***************************************************************************)
(* The normalizer applied to bounded inputs; the two rules said to be      *)
(* idempotent are then applied once more to their own result.              *)
(***************************************************************************)
\* pieces the provider outputs are built from: the particle alone and followed
\* by a space, sentences, the corporate phrase whole, in another case and short
\* of its last letter, and the other phrases polish rewrites
TextChunks ==
    { <<"p","o">>, <<"p","o"," ">>, <<" ">>, <<"O","n","e",".","\n"," ","T","w","o","!"," ">>, <<"x","?">>,
      <<"w","e"," ","a","p","p","r","e","c","i","a","t","e"," ","y","o","u","r"," ","b","u","s","i","n","e","s">>, <<"s",".">>, <<"W","e"," ","A","p","p","r","e","c","i","a","t","e"," ","Y","o","u","r"," ","B","u","s","i","n","e","s","s">>,
      <<"h","o","p","e"," ","t","o"," ","s","e","r","v","e"," ","y","o","u"," ","a","g","a","i","n"," ","s","o","o","n">>, <<"r","e","c","i","e","v","e","d">> }
NormInputs == {Null, Undef} \cup {Str(Concat(p)) : p \in SeqsUpTo(TextChunks, MaxTextChunks)}

\* the target languages of polish and the maxima the callers of
\* trimToMaxSentences pass (backend/server.js:396, 402)
TargetLangs == {Str(S_english), Str(S_taglish)}
SentenceMaxima == {Num(3), Num(4)}

NotRun == [t |-> "notrun", s |-> <<>>, n |-> 0]

InitNormalizer ==
    /\ InitIdleRequests
    /\ fn = "none"
    /\ text \in NormInputs
    /\ hint = Undef
    /\ out = NotRun
    /\ out2 = NotRun

\* f has been applied to the input with second argument a, giving r
Ran(f, a, r) ==
    /\ fn' = f
    /\ hint' = a
    /\ out' = r
    /\ UNCHANGED <<text, out2>>
    /\ UNCHANGED reqVars

Polish000 ==
    /\ fn = "none"
    /\ \E a \in TargetLangs : Ran("polish000", a, polish000(text, LabelOf(a.s)))

Polish001 ==
    /\ fn = "none"
    /\ \E a \in TargetLangs : Ran("polish001", a, polish001(text, LabelOf(a.s)))

DedupePo ==
    /\ fn = "none"
    /\ Ran("dedupePo", Undef, dedupePo(text))

TrimToMaxSentences ==
    /\ fn = "none"
    /\ \E a \in SentenceMaxima : Ran("trimToMaxSentences", a, trimToMaxSentences(text, a.n))

NormalizeTaglish ==
    /\ fn = "none"
    /\ Ran("normalizeTaglish", Undef, normalizeTaglish(text))

NormalizeFilipinoSellerTone ==
    /\ fn = "none"
    /\ Ran("normalizeFilipinoSellerTone", Undef, normalizeFilipinoSellerTone(text))

NormalizeStrictTagalogPoliteness ==
    /\ fn = "none"
    /\ Ran("normalizeStrictTagalogPoliteness", Undef, normalizeStrictTagalogPoliteness(text))

\* the same rule applied to its own result
DedupePoAgain ==
    /\ fn = "dedupePo"
    /\ out2 = NotRun
    /\ out2' = dedupePo(out)
    /\ UNCHANGED <<fn, text, hint, out>>
    /\ UNCHANGED reqVars

TrimToMaxSentencesAgain ==
    /\ fn = "trimToMaxSentences"
    /\ out2 = NotRun
    /\ out2' = trimToMaxSentences(out, hint.n)
    /\ UNCHANGED <<fn, text, hint, out>>
    /\ UNCHANGED reqVars

NextNormalizer ==
    \/ Polish000
    \/ Polish001
    \/ DedupePo
    \/ TrimToMaxSentences
    \/ NormalizeTaglish
    \/ NormalizeFilipinoSellerTone
    \/ NormalizeStrictTagalogPoliteness
    \/ DedupePoAgain
    \/ TrimToMaxSentencesAgain

SpecNormalizer == InitNormalizer /\ [][NextNormalizer]_vars

NormalizerFns ==
    { "polish000", "polish001", "dedupePo", "trimToMaxSentences", "normalizeTaglish",
      "normalizeFilipinoSellerTone", "normalizeStrictTagalogPoliteness" }

\* C7: trimToMaxSentences (with a fixed maximum) and dedupePo are idempotent:
\* applied to their own result they return it unchanged, for every text.
C7_TrimAndDedupeIdempotent ==
    (fn \in {"dedupePo", "trimToMaxSentences"} /\ out2 # NotRun) => out2 = out

\* the half of C7 that holds: the sentence trim alone is idempotent
C7_TrimIdempotent ==
    (fn = "trimToMaxSentences" /\ out2 # NotRun) => out2 = out

\* C8: the output of polish holds no case-insensitive occurrence of
\* "we appreciate your business", and an input that held one yields an output
\* holding "Salamat po sa order ninyo!".
C8_PolishRemovesPhrase ==
    (fn \in {"polish000", "polish001"} /\ IsStr(text) /\ IsStr(out)) =>
        /\ ~ContainsCI(out.s, P_appreciate)
        /\ ContainsCI(text.s, P_appreciate) => RxTest(out.s, Rx(R_salamatOrder, FALSE, FALSE, FALSE))

\* the half of C8 that holds: an input holding the phrase yields the fixed phrase
C8_PolishInsertsPhrase ==
    (fn \in {"polish000", "polish001"} /\ IsStr(text) /\ IsStr(out)
        /\ ContainsCI(text.s, P_appreciate)) =>
            RxTest(out.s, Rx(R_salamatOrder, FALSE, FALSE, FALSE))

\* C9: every normalizer function, called with "", null or undefined and any
\* target language, returns its input unchanged and does not throw.
C9_NormalizerTotalOnEmpty ==
    (fn \in NormalizerFns /\ text \in {Str(<<>>), Null, Undef}) => out = text


(***************************************************************************)
(* cleanKey applied to bounded values of an environment variable.          *)
(***************************************************************************)
\* pieces the configured values are built from: the prefix in two cases, a
\* space, a tab, and the secret
KeyChunks == { <<"b","e","a","r","e","r">>, <<"B","e","a","r","e","r">>, <<" ">>, <<"\t">>, <<"s","k","-","1">> }
\* process.env.X: undefined, or a string
KeyValues == {Undef} \cup {Str(Concat(p)) : p \in SeqsUpTo(KeyChunks, MaxKeyChunks)}

InitKeys ==
    /\ InitIdleRequests
    /\ fn = "none"
    /\ text \in KeyValues
    /\ hint = Undef
    /\ out = NotRun
    /\ out2 = NotRun

CleanKey000 ==
    /\ fn = "none"
    /\ fn' = "cleanKey000"
    /\ out' = Str(cleanKey000(text))
    /\ UNCHANGED <<text, hint, out2>>
    /\ UNCHANGED reqVars

CleanKey001 ==
    /\ fn = "none"
    /\ fn' = "cleanKey001"
    /\ out' = Str(cleanKey001(text))
    /\ UNCHANGED <<text, hint, out2>>
    /\ UNCHANGED reqVars

CleanKey004 ==
    /\ fn = "none"
    /\ fn' = "cleanKey004"
    /\ out' = Str(cleanKey004(text))
    /\ UNCHANGED <<text, hint, out2>>
    /\ UNCHANGED reqVars

NextKeys ==
    \/ CleanKey000
    \/ CleanKey001
    \/ CleanKey004

SpecKeys == InitKeys /\ [][NextKeys]_vars

\* t begins with "bearer" in any case followed by a space
HasBearerPrefix(t) ==
    /\ Len(t) >= 7
    /\ ToLower(SubSeq(t, 1, 6)) = S_bearer
    /\ t[7] = " "

KeyCleaned == fn \in {"cleanKey000", "cleanKey001", "cleanKey004"}

\* C22: for every configured value the cleaned key has no leading or trailing
\* whitespace and does not begin with "bearer " in any case, also when the
\* value carries the prefix more than once or separates it with a tab, and the
\* cleanKey implementations return the same key for the same value.
C22_CleanKeyStripsBearer ==
    KeyCleaned =>
        /\ out.s = Trim(out.s)
        /\ ~HasBearerPrefix(out.s)
        /\ cleanKey000(text) = cleanKey004(text)
        /\ cleanKey001(text) = cleanKey004(text)

\* the parts of C22 that hold: the cleaned key carries no whitespace at either
\* end, a value without the prefix is only trimmed, and the implementations
\* agree on every value in which no tab follows the first "bearer"
C22_CleanKeyTrimmed ==
    KeyCleaned =>
        /\ out.s = Trim(out.s)
        /\ (text # Undef /\ ~LitAt(Trim(text.s), 1, S_bearer, TRUE)) => out.s = Trim(text.s)
        /\ (text # Undef /\ ~LitAt(Trim(text.s), 1, S_bearer \o <<"\t">>, TRUE)) =>
              cleanKey000(text) = cleanKey004(text)
====
